---- MODULE Spec2Model ----
(***************************************************************************)
(* Model of sync.py: a master VLC player and its slaves are polled over    *)
(* HTTP, the drift of every slave against the master is measured, and the  *)
(* slaves are told to seek to the master's time.                           *)
(*                                                                         *)
(* Indices are the Python ones: endpoint 0 is the master, 1..n-1 are the   *)
(* slaves; lists are functions on 0..n-1.                                  *)
(*                                                                         *)
(* Floats of seconds are fixed-point integers: one unit is half a          *)
(* microsecond, so that the 1e-6 of first_run is 2 units and a non-zero    *)
(* drift below it (1 unit) exists.  An optional value is a sequence:       *)
(* <<>> is Python's None, <<x>> is the number x, <<0, 0>> is a JSON value  *)
(* on which float() raises.  The players answer with JSON objects of the   *)
(* documented shape (position, length, time), or not at all.               *)
(***************************************************************************)
EXTENDS Integers, Sequences, FiniteSets, TLC

\* ------------------------------------------------------------- bounds
\* The largest number of hosts on the command line (master included).
MaxHosts == 3
\* The same, in the runs with players at signed times.
WideHosts == 2
FairHosts == 3

\* ------------------------------------------------------------- numbers
\* 1e-6 seconds, the bound of first_run (line 186), in units.
Epsilon == 2
Second == 1000000 * Epsilon
\* A position fraction is held in quarters: position 1 is 0.25.
PosScale == 4

None == << >>
Bad == <<0, 0>>
Some(x) == <<x>>
IsNum(v) == Len(v) = 1
Val(v) == v[1]

Abs(x) == IF x < 0 THEN -x ELSE x
Max(a, b) == IF a > b THEN a ELSE b

\* ------------------------------------------------------------- inputs
\* What one status query can give: None (get_vlc_status caught an error) or
\* the JSON object of the player, with the fields of its documented shape.
Snapshot(p, l, t) == [avail |-> TRUE, position |-> p, length |-> l, time |-> t]
Unavailable == [avail |-> FALSE, position |-> None, length |-> None, time |-> None]

T0 == 20 * Second
\* The answers of the players of one run are drawn from one family:
\*   Coarse: an unreachable player, a player at 20 s read from "time", and a
\*           player at 21.5 s read from position * length (0.25 * 86 s);
\*   Fine:   a player with nothing loaded, a player at 20 s whose length is
\*           0, and one half a microsecond further.
Coarse ==
  { Unavailable,
    Snapshot(None, None, Some(T0)),
    Snapshot(Some(1), Some(4 * T0 + 6 * Second), Some(T0)) }
Fine ==
  { Snapshot(None, None, None),
    Snapshot(Some(1), Some(0), Some(T0)),
    Snapshot(None, None, Some(T0 + 1)) }

\* Signed: an unreachable player and players at -5 s, -4.5 s and 2.5 s (a
\* player may report any number as its time).
Signed ==
  { Unavailable,
    Snapshot(None, None, Some(-5 * Second)),
    Snapshot(None, None, Some(-5 * Second + Second \div 2)),
    Snapshot(None, None, Some(2 * Second + Second \div 2)) }

\* Every shape of answer: each field absent, not a number, zero (position
\* and length) or a number: position 0.5, length 120 s, time 42 s.
AllSnapshots ==
  { Unavailable } \cup
  { Snapshot(p, l, t) :
      p \in { None, Bad, Some(0), Some(2) },
      l \in { None, Bad, Some(0), Some(120 * Second) },
      t \in { None, Bad, Some(42 * Second) } }

\* --drift-threshold values: 1.0 (the default), 1.5 and 2.0 seconds.
Thresholds == { Second, (3 * Second) \div 2, 2 * Second }

\* The runs: the coarse players under every threshold, the fine ones (whose
\* drifts all lie below 1e-6) under the default.
Runs == ({Coarse} \X Thresholds) \cup ({Fine} \X {Second})
\* The runs with players at signed times, under the default threshold.
WideRuns == {Signed} \X {Second}
\* The runs followed to their end: the coarse players, default threshold.
FairRuns == {Coarse} \X {Second}
\* The runs in which the master gives one answer, of any shape.
ExtractRuns == { <<{s}, Second>> : s \in AllSnapshots }

\* ------------------------------------------------------------- helpers
\* float(pos) * float(length), line 61.
Product(pos, length) == (pos * length) \div PosScale

\* Python truthiness of status.get("length"): None and 0 are falsy.
Truthy(v) == v # None /\ v # Some(0)

\* Mutant: "length is not None" for the truthiness of length.
extract_precise_time_zero_length(status) ==
  IF ~status.avail THEN None
  ELSE IF status.position # None /\ status.length # None
          /\ IsNum(status.position) /\ IsNum(status.length)
       THEN Some(Product(Val(status.position), Val(status.length)))
  ELSE IF status.time # None /\ IsNum(status.time)
       THEN status.time
  ELSE None
extract_precise_time(status) ==
  IF ~status.avail THEN None
  ELSE IF status.position # None /\ Truthy(status.length)
          /\ IsNum(status.position) /\ IsNum(status.length)
       THEN Some(Product(Val(status.position), Val(status.length)))
  ELSE IF status.time # None /\ IsNum(status.time)
       THEN status.time
  ELSE None

\* int(x) of a non-negative x in seconds: truncation.
Trunc(x) == x \div Second

\* Mutant: delta = 0.0 of line 88 left out.
SeekTargetWithDelta(time_seconds, delta) ==
  Trunc(Max(time_seconds + delta, 0))
\* The target of seek_vlc_to_time, in whole seconds; delta is overwritten.
SeekTarget(time_seconds, delta) ==
  LET d == 0 IN Trunc(Max(time_seconds + d, 0))

\* Mutant: the comparison with 1e-6 the wrong way round.
first_run_reversed(ds) == \A k \in DOMAIN ds : Abs(ds[k]) > Epsilon
\* first_run, line 186.
first_run_of(ds) == \A k \in DOMAIN ds : Abs(ds[k]) < Epsilon

\* Mutant: the docstring's strict test, |drift| > threshold.
SkipSeekStrict(fr, drift, threshold) == ~fr /\ Abs(drift) <= threshold
\* The skip test of line 193.
SkipSeek(fr, drift, threshold) == ~fr /\ Abs(drift) < threshold

\* Mutant: a list one short.
ZerosShort(n) == [k \in 0 .. n - 2 |-> 0]
\* [0.0] * n, lines 140 and 241.
Zeros(n) == [k \in 0 .. n - 1 |-> 0]

\* Mutant: a slave without a time counted as being at 0.0.
SlaveDriftNoContinue(mt, st) == mt - (IF st = None THEN 0 ELSE Val(st))
\* Mutant: the subtraction the other way round.
SlaveDriftFlipped(mt, st) == IF st = None THEN 0 ELSE Val(st) - mt
\* One pass of the slaves' loop of detect_delays, lines 145-154.
SlaveDrift(mt, st) == IF st = None THEN 0 ELSE mt - Val(st)

\* Mutant: the master's slot holds the master's time.
MeasuredDelaysMasterSlot(n, mt, sts) ==
  [k \in DOMAIN Zeros(n) |->
     IF k >= 1 THEN SlaveDrift(mt, extract_precise_time(sts[k])) ELSE mt]
\* detect_delays, lines 140-159: delays, with the slaves' slots written.
MeasuredDelays(n, mt, sts) ==
  [k \in DOMAIN Zeros(n) |->
     IF k >= 1 THEN SlaveDrift(mt, extract_precise_time(sts[k]))
     ELSE Zeros(n)[k]]

\* The round trip measured for endpoint k (timed_status_request).
Rtt(k) == 10 * (k + 1)

\* Mutant: the new values merged into the old ones.
KeptMerged(old, new) ==
  IF new # None THEN [k \in DOMAIN old |-> IF new[k] = 0 THEN old[k] ELSE new[k]]
  ELSE old
\* What sync_once keeps after the re-poll, lines 210-213.
Kept(old, new) == IF new # None THEN new ELSE old

\* Mutant: a fresh list instead of the one passed in.
AbortedReset(ds) == [k \in DOMAIN ds |-> 0]
\* What sync_once returns when the master has no time, line 181.
Aborted(ds) == ds

VARIABLES
  host_strs,        \* the hosts of the command line: <<0, .., n-1>>
  drift_threshold,  \* args.drift_threshold
  interval,         \* TRUE: --interval given, main loops
  answers,          \* the family the players' answers of this run come from
  delays,           \* main's delays: the DriftState
  pc,               \* where the main thread is
  master_time,      \* sync_once's master_time
  first_run,        \* sync_once's first_run
  i,                \* sync_once's loop index
  seeks,            \* the seek requests made in this cycle, in order
  fut,              \* detect_delays: the future of each endpoint's request
  statuses,         \* detect_delays: statuses
  rtt_ms,           \* detect_delays: rtt_ms
  new_delays,       \* sync_once's new_delays
  returned,         \* what sync_once returned
  initial,          \* TRUE until the first cycle of the run is over
  measured          \* TRUE once a finished cycle of the run has measured drifts

vars == << host_strs, drift_threshold, interval, answers, delays, pc,
           master_time, first_run, i, seeks, fut, statuses, rtt_ms,
           new_delays, returned, initial, measured >>

N == Len(host_strs)
Endpoints == 0 .. N - 1
Slaves == 1 .. N - 1

NoFutures == [k \in Endpoints |-> [st |-> "none", status |-> Unavailable, rtt |-> 0]]
NoStatuses == [k \in Endpoints |-> Unavailable]
NoRtt == [k \in Endpoints |-> 0]

\* Mutant: the loop over every endpoint, range(len(parsed)).
RangeStartAll(n) == IF n > 0 THEN 0 ELSE 1
\* The first index of range(1, len(parsed)), line 189.
RangeStart(n) == IF n > 0 THEN 1 ELSE 0

\* Mutant: the loop ends one slave early, range(1, len(parsed) - 1).
LoopDoneEarly(k) == k >= N - 1
\* The slaves' loop of sync_once is over, line 189: range(1, len(parsed)).
LoopDone(k) == k >= N

\* Mutant: the request is fired and the loop goes on without its answer.
BlockedNot == "correcting"
\* Where the main thread is while requests.get of a seek has not returned,
\* lines 94-95: in the call.
Blocked == "seeking"

\* Mutant: results stored in the order of completion.
fut_to_idx_append(k) == Cardinality({ j \in Endpoints : fut[j].st = "collected" })
\* Mutant: every result stored in slot 0.
fut_to_idx_zero(k) == 0
\* fut_to_idx[fut], lines 126 and 129: the slot of endpoint k's future.
fut_to_idx(k) == k

\* Mutant: the first finished request ends the wait.
JoinedAny == \E k \in Endpoints : fut[k].st = "collected"
\* Mutant: the wait is for futures that are still to be handed over.
JoinedNever == \A k \in Endpoints : fut[k].st = "done"
\* The end of the with block, lines 122-130: as_completed has handed over
\* every future and the pool has shut down.
Joined == \A k \in Endpoints : fut[k].st = "collected"

\* Mutant: a failed seek is tried again at once.
AfterSeekRetry(k, ok) == IF ok THEN k + 1 ELSE k
\* Mutant: a failed seek ends the loop.
AfterSeekAbort(k, ok) == IF ok THEN k + 1 ELSE N
\* Where the slaves' loop goes after a seek returned: on, ok or not.
AfterSeek(k, ok) == k + 1

\* main, lines 233-244: parse, delays = [0.0] * len(hosts), first call.
Boot(hosts, runs) ==
  /\ \E n \in 1 .. hosts : host_strs = [k \in 1 .. n |-> k - 1]
  /\ \E r \in runs : answers = r[1] /\ drift_threshold = r[2]
  /\ interval \in BOOLEAN
  /\ delays = Zeros(Len(host_strs))
  /\ pc = "poll_master"
  /\ master_time = None
  /\ first_run = FALSE
  /\ i = 0
  /\ seeks = << >>
  /\ fut = NoFutures
  /\ statuses = NoStatuses
  /\ rtt_ms = NoRtt
  /\ new_delays = None
  /\ returned = None
  /\ initial = TRUE
  /\ measured = FALSE

Init == Boot(MaxHosts, Runs)
\* The same start, with the players at signed times.
InitWide == Boot(WideHosts, WideRuns)
\* The start of the runs followed to their end.
InitFair == Boot(FairHosts, FairRuns)
\* The start of a run of the master alone, with one answer to give.
InitExtract == Boot(1, ExtractRuns)

\* sync_once, lines 176-181: the master gave no time.
MasterUnavailable ==
  /\ pc = "poll_master"
  /\ \E s \in answers :
       /\ extract_precise_time(s) = None
       /\ master_time' = None
  /\ returned' = Aborted(delays)
  /\ pc' = "returned"
  /\ UNCHANGED << host_strs, drift_threshold, interval, answers, delays,
                  first_run, i, seeks, fut, statuses, rtt_ms, new_delays,
                  initial,
                  measured >>

\* sync_once, lines 176-186: the master's time is read, first_run computed.
MasterRead ==
  /\ pc = "poll_master"
  /\ \E s \in answers :
       /\ extract_precise_time(s) # None
       /\ master_time' = extract_precise_time(s)
  /\ first_run' = first_run_of(delays)
  /\ i' = RangeStart(N)
  /\ pc' = "correcting"
  /\ UNCHANGED << host_strs, drift_threshold, interval, answers, delays,
                  seeks, fut, statuses, rtt_ms, new_delays, returned, initial,
                  measured >>

\* sync_once, lines 189-196: slave i is skipped.
Skip ==
  /\ pc = "correcting"
  /\ ~LoopDone(i)
  /\ SkipSeek(first_run, delays[i], drift_threshold)
  /\ i' = i + 1
  /\ UNCHANGED << host_strs, drift_threshold, interval, answers, delays, pc,
                  master_time, first_run, seeks, fut, statuses, rtt_ms,
                  new_delays, returned, initial, measured >>

\* sync_once, lines 198-200, and seek_vlc_to_time, lines 88-95: the seek
\* request to slave i goes out.
Seek ==
  /\ pc = "correcting"
  /\ ~LoopDone(i)
  /\ ~SkipSeek(first_run, delays[i], drift_threshold)
  /\ seeks' = Append(seeks, [idx |-> i, res |-> "sent",
                             target |-> SeekTarget(Val(master_time), delays[i])])
  /\ pc' = Blocked
  /\ UNCHANGED << host_strs, drift_threshold, interval, answers, delays,
                  master_time, first_run, i, fut, statuses, rtt_ms,
                  new_delays, returned, initial, measured >>

\* seek_vlc_to_time, lines 93-99, and sync_once, lines 202-206: the request
\* succeeded or raised; either way the loop goes on.
SeekReturn ==
  /\ pc = "seeking"
  /\ \E ok \in BOOLEAN :
       /\ seeks' = [seeks EXCEPT ![Len(seeks)].res = IF ok THEN "ok" ELSE "failed"]
       /\ i' = AfterSeek(i, ok)
  /\ pc' = "correcting"
  /\ UNCHANGED << host_strs, drift_threshold, interval, answers, delays,
                  master_time, first_run, fut, statuses, rtt_ms, new_delays,
                  returned, initial,
                  measured >>

\* detect_delays, lines 116-126: one request per endpoint is submitted.
Submit ==
  /\ pc = "correcting"
  /\ LoopDone(i)
  /\ statuses' = NoStatuses
  /\ rtt_ms' = NoRtt
  /\ fut' = [k \in Endpoints |-> [st |-> "running", status |-> Unavailable, rtt |-> 0]]
  /\ pc' = "polling"
  /\ UNCHANGED << host_strs, drift_threshold, interval, answers, delays,
                  master_time, first_run, i, seeks, new_delays, returned,
                  initial,
                  measured >>

\* A pool thread: timed_status_request returns for endpoint k, with the
\* player's answer or, an error or the timeout caught, with None.
Worker(k) ==
  /\ pc = "polling"
  /\ k \in Endpoints
  /\ fut[k].st = "running"
  /\ \E s \in answers :
       fut' = [fut EXCEPT ![k] = [st |-> "done", status |-> s, rtt |-> Rtt(k)]]
  /\ UNCHANGED << host_strs, drift_threshold, interval, answers, delays, pc,
                  master_time, first_run, i, seeks, statuses, rtt_ms,
                  new_delays, returned, initial, measured >>

WorkerDone == \E k \in Endpoints : Worker(k)
\* detect_delays, lines 128-130: as_completed hands over a finished future.
Collect ==
  /\ pc = "polling"
  /\ \E k \in Endpoints :
       /\ fut[k].st = "done"
       /\ statuses' = [statuses EXCEPT ![fut_to_idx(k)] = fut[k].status]
       /\ rtt_ms' = [rtt_ms EXCEPT ![fut_to_idx(k)] = fut[k].rtt]
       /\ fut' = [fut EXCEPT ![k].st = "collected"]
  /\ UNCHANGED << host_strs, drift_threshold, interval, answers, delays, pc,
                  master_time, first_run, i, seeks, new_delays, returned,
                  initial,
                  measured >>

\* detect_delays, lines 132-159, after the with block.
Measure ==
  /\ pc = "polling"
  /\ Joined
  /\ LET mt == extract_precise_time(statuses[0]) IN
       new_delays' = IF mt = None THEN None
                     ELSE MeasuredDelays(N, Val(mt), statuses)
  /\ pc' = "repolled"
  /\ UNCHANGED << host_strs, drift_threshold, interval, answers, delays,
                  master_time, first_run, i, seeks, fut, statuses, rtt_ms,
                  returned, initial, measured >>

\* sync_once, lines 210-213.
Return ==
  /\ pc = "repolled"
  /\ returned' = Kept(delays, new_delays)
  /\ pc' = "returned"
  /\ UNCHANGED << host_strs, drift_threshold, interval, answers, delays,
                  master_time, first_run, i, seeks, fut, statuses, rtt_ms,
                  new_delays, initial,
                  measured >>

\* main, line 244: a single cycle, the result is dropped.
Once ==
  /\ pc = "returned"
  /\ ~interval
  /\ pc' = "exit"
  /\ initial' = FALSE
  /\ measured' = (measured \/ new_delays # None)
  /\ UNCHANGED << host_strs, drift_threshold, interval, answers, delays,
                  master_time, first_run, i, seeks, fut, statuses, rtt_ms,
                  new_delays, returned >>

\* main, lines 248-249: delays = sync_once(...), then sleep.
Assign ==
  /\ pc = "returned"
  /\ interval
  /\ delays' = returned
  /\ pc' = "sleep"
  /\ initial' = FALSE
  /\ measured' = (measured \/ new_delays # None)
  /\ UNCHANGED << host_strs, drift_threshold, interval, answers, master_time,
                  first_run, i, seeks, fut, statuses, rtt_ms, new_delays,
                  returned >>

\* main, lines 247-248: the sleep is over, the next cycle is called.
NextCycle ==
  /\ pc = "sleep"
  /\ pc' = "poll_master"
  /\ master_time' = None
  /\ first_run' = FALSE
  /\ i' = 0
  /\ seeks' = << >>
  /\ fut' = NoFutures
  /\ statuses' = NoStatuses
  /\ rtt_ms' = NoRtt
  /\ new_delays' = None
  /\ returned' = None
  /\ UNCHANGED << host_strs, drift_threshold, interval, answers, delays,
                  initial,
                  measured >>

\* main, lines 250-251: KeyboardInterrupt during the sleep.
Interrupt ==
  /\ pc = "sleep"
  /\ pc' = "exit"
  /\ UNCHANGED << host_strs, drift_threshold, interval, answers, delays,
                  master_time, first_run, i, seeks, fut, statuses, rtt_ms,
                  new_delays, returned, initial, measured >>

Next ==
  \/ MasterUnavailable
  \/ MasterRead
  \/ Skip
  \/ Seek
  \/ SeekReturn
  \/ Submit
  \/ WorkerDone
  \/ Collect
  \/ Measure
  \/ Return
  \/ Once
  \/ Assign
  \/ NextCycle
  \/ Interrupt

Spec == Init /\ [][Next]_vars
SpecWide == InitWide /\ [][Next]_vars

\* Every request returns or fails within HTTP_TIMEOUT (lines 30 and 94-95),
\* and a thread that can run does run: the main thread goes through its
\* cycle and each pool thread finishes its own query.  The sleep between
\* cycles is not forced to end: an interrupt may come first.
Fairness ==
  /\ WF_vars(MasterUnavailable \/ MasterRead)
  /\ WF_vars(Skip)
  /\ WF_vars(Seek)
  /\ WF_vars(SeekReturn)
  /\ WF_vars(Submit)
  /\ \A k \in 0 .. FairHosts - 1 : WF_vars(k < N /\ Worker(k))
  /\ WF_vars(Collect)
  /\ WF_vars(Measure)
  /\ WF_vars(Return)
  /\ WF_vars(Once \/ Assign)
FairSpec == InitFair /\ [][Next]_vars /\ Fairness

\* The master's poll of sync_once alone: lines 176-181.
NextExtract ==
  \/ MasterUnavailable
  \/ MasterRead
SpecExtract == InitExtract /\ [][NextExtract]_vars

\* ------------------------------------------------------------- claims
\* The slaves a seek request went to in this cycle.
Sought == { seeks[a].idx : a \in 1 .. Len(seeks) }
\* The seeks of this cycle are over: the re-poll has begun or is done.
Corrected == pc \in {"polling", "repolled", "returned"} /\ master_time # None
\* The cycle ran to its end, re-poll included.
Reported == pc = "returned" /\ master_time # None
\* The re-poll's status query of endpoint k failed.
PollFailed(k) == fut[k].st = "collected" /\ fut[k].status = Unavailable
\* The time read from endpoint k in the re-poll.
Reading(k) == extract_precise_time(statuses[k])
\* The drift a poll pass owes slave k.
Owed(k) ==
  IF Reading(k) = None THEN 0 ELSE Val(Reading(0)) - Val(Reading(k))
\* Every carried drift is below 1e-6 in magnitude.
CarriedBelowEpsilon == \A k \in Endpoints : Abs(delays[k]) < Epsilon

\* C1: a cycle whose master poll gives no time returns the DriftState it was
\* given, sends no seek and starts no re-poll.
C1_AbortKeepsState ==
  (pc = "returned" /\ master_time = None) =>
    /\ returned = delays
    /\ seeks = << >>
    /\ \A k \in Endpoints : fut[k].st = "none"
    /\ new_delays = None
C1_Witness ==
  /\ pc = "returned" /\ master_time = None /\ ~initial
  /\ \E k \in Slaves : delays[k] # 0 /\ returned[k] = delays[k]

\* C2: entered with an all-zero DriftState and the master's time read, the
\* cycle sends a seek to every slave, whatever the (non-zero) threshold.
C2_ZeroStateSeeksAll ==
  (Corrected /\ \A k \in Endpoints : delays[k] = 0) =>
    (drift_threshold # 0 => \A s \in Slaves : s \in Sought)
C2_Witness ==
  /\ Corrected /\ N >= 3 /\ drift_threshold = 2 * Second
  /\ \A k \in Endpoints : delays[k] = 0
  /\ Sought = Slaves

C4_Original ==
  Reported =>
    \A s \in Slaves :
      PollFailed(s) =>
        /\ new_delays # None => new_delays[s] = 0
        /\ s \notin Sought
\* C4 as amended: a slave whose status poll fails yields drift 0.0 in the
\* DriftState that poll produces, and in a first-run cycle it is sent a seek
\* all the same: the seeks are decided before the slaves are polled.
C4_FailedPollZeroDriftStillSought ==
  Reported =>
    \A s \in Slaves :
      PollFailed(s) =>
        /\ new_delays # None => (new_delays[s] = 0 /\ returned[s] = 0)
        /\ CarriedBelowEpsilon => s \in Sought
C4_Witness ==
  /\ Reported /\ initial /\ new_delays # None
  /\ \E s \in Slaves : PollFailed(s) /\ returned[s] = 0 /\ s \in Sought

\* C5 as stated: after the initial cycle of a run, no slave whose carried
\* drift is below the threshold in magnitude is sent a seek.  It is taken
\* in the cycles that follow a measurement, where a prior drift exists.
C5_Original ==
  (~initial /\ measured
     /\ pc \in {"correcting", "seeking", "polling", "repolled", "returned"}) =>
    \A s \in Sought : Abs(delays[s]) >= drift_threshold

\* C6 as stated: a cycle that reaches the re-poll returns exactly the
\* re-poll's output.
C6_Original == Reported => returned = new_delays
\* C6 as amended: a cycle that reaches the re-poll returns exactly the
\* re-poll's output when the re-poll read the master's time, no value of the
\* DriftState passed in being carried forward; when the re-poll could not
\* read the master's time, it returns the DriftState passed in unchanged.
C6_RepollReplacesOrKeeps ==
  Reported =>
    IF Reading(0) # None
    THEN returned = [k \in Endpoints |-> IF k = 0 THEN 0 ELSE Owed(k)]
    ELSE returned = delays
C6_Witness ==
  /\ Reported /\ Reading(0) # None
  /\ \E s, t \in Slaves :
       /\ PollFailed(s) /\ delays[s] # 0 /\ returned[s] = 0
       /\ returned[t] # delays[t] /\ returned[t] # 0

\* C7: the DriftState has one value per endpoint, in main and in what every
\* cycle computes and returns.
C7_LengthIsHosts ==
  /\ DOMAIN delays = 0 .. Len(host_strs) - 1
  /\ Cardinality(DOMAIN delays) = Len(host_strs)
  /\ returned # None => DOMAIN returned = 0 .. Len(host_strs) - 1
  /\ new_delays # None => DOMAIN new_delays = 0 .. Len(host_strs) - 1
C7_Witness ==
  /\ pc = "sleep" /\ N >= 3 /\ master_time # None
  /\ \E a \in 1 .. Len(seeks) : seeks[a].res = "failed"
  /\ \E s \in Slaves : PollFailed(s)
  /\ \E s \in Slaves : delays[s] # 0

\* C8: the master's slot of the DriftState is 0.0, in main and in what
\* every cycle computes and returns.
C8_MasterSlotZero ==
  /\ delays[0] = 0
  /\ returned # None => returned[0] = 0
  /\ new_delays # None => new_delays[0] = 0
C8_Witness ==
  /\ pc = "sleep" /\ ~initial /\ delays[0] = 0
  /\ \E s \in Slaves : delays[s] # 0

\* C9: a poll pass that reads the master's time gives every slave the drift
\* masterTime - slaveTime (positive when the slave is behind, negative when
\* ahead), or 0.0 when the slave has no time; always a number.
C9_DriftIsDifference ==
  (pc \in {"repolled", "returned"} /\ Reading(0) # None) =>
    /\ new_delays # None
    /\ \A s \in Slaves :
         /\ new_delays[s] \in Int
         /\ new_delays[s] = Owed(s)
         /\ Reading(s) = None => new_delays[s] = 0
         /\ Reading(s) # None =>
              /\ Val(Reading(s)) < Val(Reading(0)) => new_delays[s] > 0
              /\ Val(Reading(s)) > Val(Reading(0)) => new_delays[s] < 0
C9_Witness ==
  /\ pc = "repolled" /\ Reading(0) # None
  /\ \E s, u \in Slaves :
       /\ Reading(s) # None /\ new_delays[s] > 0
       /\ Reading(u) = None /\ new_delays[u] = 0

\* C10: a failed seek or a failed status query of one slave does not end the
\* cycle for the others: every later slave due a seek gets it, the re-poll
\* runs, and every other slave's drift comes from its own reading.
C10_FailuresAreLocal ==
  /\ Corrected =>
       \A a \in 1 .. Len(seeks) :
         seeks[a].res = "failed" =>
           \A s \in Slaves :
             (s > seeks[a].idx
                /\ (CarriedBelowEpsilon \/ Abs(delays[s]) >= drift_threshold))
             => s \in Sought
  /\ Reported =>
       /\ \A k \in Endpoints : fut[k].st = "collected"
       /\ \A s \in Slaves :
            (PollFailed(s) /\ Reading(0) # None) =>
              \A t \in Slaves \ {s} : new_delays[t] = Owed(t)
C10_Witness ==
  /\ Reported /\ Reading(0) # None
  /\ \E a \in 1 .. Len(seeks), s, t \in Slaves :
       /\ seeks[a].res = "failed" /\ seeks[a].idx = s
       /\ t > s /\ t \in Sought
       /\ PollFailed(s) /\ new_delays[t] # 0

\* C11: every seek sent in a cycle carries max(truncate(masterTime), 0) of
\* the master time read at the start of that cycle: a whole number of
\* seconds, never negative (0 for a master at -5 s), whatever the slave's
\* drift passed as the adjustment.
C11_TargetIsTruncatedMasterTime ==
  \A a \in 1 .. Len(seeks) :
    LET t == seeks[a].target
        m == Val(master_time) IN
      /\ t \in Nat
      /\ m <= 0 => t = 0
      /\ m >= 0 => (t * Second <= m /\ m < (t + 1) * Second)
      /\ m = -5 * Second => t = 0
C11_Witness ==
  /\ master_time = Some(-5 * Second)
  /\ \E a \in 1 .. Len(seeks) :
       /\ seeks[a].target = 0
       /\ delays[seeks[a].idx] > Second
\* C12: once handed over, the result of endpoint k's query (its status and
\* its round trip) is in slot k and in no other, in whatever order the
\* queries finish; after the poll every slot holds its own endpoint's.
C12_SlotsAreIndexAligned ==
  /\ \A k \in Endpoints :
       fut[k].st = "collected" =>
         /\ statuses[k] = fut[k].status
         /\ rtt_ms[k] = Rtt(k)
         /\ \A j \in Endpoints \ {k} : rtt_ms[j] # Rtt(k)
  /\ \A k \in Endpoints :
       fut[k].st \in {"none", "running", "done"} =>
         (statuses[k] = Unavailable /\ rtt_ms[k] = 0)
C12_Witness ==
  /\ pc = "polling" /\ N >= 3
  /\ fut[0].st = "running" /\ fut[1].st = "done" /\ fut[2].st = "collected"
  /\ statuses[2] = fut[2].status /\ statuses[2] # Unavailable
  /\ fut[1].status # fut[2].status
\* A snapshot of the documented shape: each field a number or absent.
Typed(s) ==
  /\ s.position = None \/ IsNum(s.position)
  /\ s.length = None \/ IsNum(s.length)
  /\ s.time = None \/ IsNum(s.time)
\* C13: extract_precise_time returns position * length when both are present
\* and length is not zero; otherwise the time field when it is present;
\* otherwise, and for an unavailable snapshot, nothing.  A length of zero or
\* a missing length falls back to the time field.
C13_ExtractPriority ==
  pc # "poll_master" =>
    \A s \in answers :
      Typed(s) =>
        /\ (s.avail /\ s.position # None /\ s.length # None /\ Val(s.length) # 0)
             => master_time = Some((Val(s.position) * Val(s.length)) \div PosScale)
        /\ (s.avail /\ ~(s.position # None /\ s.length # None /\ Val(s.length) # 0)
               /\ s.time # None)
             => master_time = s.time
        /\ (~s.avail \/ (~(s.position # None /\ s.length # None /\ Val(s.length) # 0)
                          /\ s.time = None))
             => master_time = None
        /\ s = Snapshot(Some(2), Some(120 * Second), None)
             => master_time = Some(60 * Second)
C13_Witness ==
  /\ pc = "correcting"
  /\ answers = { Snapshot(Some(2), Some(0), Some(42 * Second)) }
  /\ master_time = Some(42 * Second)
\* C14: within a cycle the master is read before any seek goes out, and the
\* re-poll starts only when the slaves' loop is over and every seek of the
\* cycle has returned, so that the drift reported is measured after the
\* corrections.
C14_CycleOrder ==
  /\ seeks # << >> => master_time # None
  /\ pc \in {"poll_master", "correcting", "seeking"} =>
       \A k \in Endpoints : fut[k].st = "none"
  /\ (\E k \in Endpoints : fut[k].st # "none") =>
       /\ master_time # None
       /\ i >= N
       /\ \A a \in 1 .. Len(seeks) : seeks[a].res \in {"ok", "failed"}
  /\ new_delays # None => \A k \in Endpoints : fut[k].st = "collected"
C14_Witness ==
  /\ pc = "polling" /\ Len(seeks) >= 2
  /\ seeks[1].res = "failed" /\ seeks[2].res = "ok"
  /\ \E k \in Endpoints : fut[k].st = "done"
  /\ \E k \in Endpoints : fut[k].st = "running"
\* C15: the poll is a wait for all: the step that computes the master time
\* and the drifts is taken only when every endpoint's query has returned a
\* status or failed and its slot is filled, and it computes from those slots.
C15_WaitForAll ==
  [][(pc = "polling" /\ pc' = "repolled") =>
       /\ \A k \in Endpoints :
            /\ fut[k].st = "collected"
            /\ statuses[k] = fut[k].status
            /\ rtt_ms[k] # 0
       /\ statuses' = statuses
       /\ new_delays' # None =>
            \A k \in Slaves :
              new_delays'[k] =
                SlaveDrift(Val(extract_precise_time(fut[0].status)),
                           extract_precise_time(fut[k].status))]_vars
C15_Witness ==
  /\ pc = "repolled" /\ N >= 3 /\ new_delays # None
  /\ \E k \in Slaves : fut[k].status = Unavailable
  /\ \E k \in Slaves : new_delays[k] # 0
  /\ \A k \in Endpoints : fut[k].st = "collected"
\* C16: with every request answered or failed within its timeout, a query
\* that is under way can finish whatever the state of the other queries,
\* all the queries under way do finish, and every cycle that starts comes
\* to its end and hands control back to main (the sleep, or the exit of a
\* single run).
C16_CycleTerminates ==
  /\ [](\A k \in Endpoints : fut[k].st = "running" => ENABLED Worker(k))
  /\ (\E k \in Endpoints : fut[k].st = "running")
       ~> (\A k \in Endpoints : fut[k].st # "running")
  /\ (pc = "poll_master") ~> (pc \in {"sleep", "exit"})
C16_Witness ==
  /\ pc = "sleep" /\ N >= 3 /\ master_time # None
  /\ fut[1].st = "collected" /\ fut[1].status = Unavailable
  /\ fut[2].st = "collected" /\ fut[2].status # Unavailable
  /\ \E a \in 1 .. Len(seeks) : seeks[a].res = "failed"
\* C17: seeks go out one at a time in increasing slave index order: only
\* the last seek sent can be unanswered, the controller is blocked in it,
\* and every earlier seek of the cycle went to a lower index and has
\* returned, so no two seeks are ever in flight.
C17_SeeksOneAtATime ==
  /\ \A a \in 1 .. Len(seeks) :
       seeks[a].res = "sent" => (a = Len(seeks) /\ pc = "seeking" /\ seeks[a].idx = i)
  /\ pc = "seeking" => (Len(seeks) > 0 /\ seeks[Len(seeks)].res = "sent")
  /\ \A a, b \in 1 .. Len(seeks) : a < b => seeks[a].idx < seeks[b].idx
  /\ Cardinality({ a \in 1 .. Len(seeks) : seeks[a].res = "sent" }) <= 1
C17_Witness ==
  /\ pc = "seeking" /\ Len(seeks) = 2
  /\ seeks[1].idx = 1 /\ seeks[1].res = "ok"
  /\ seeks[2].idx = 2 /\ seeks[2].res = "sent"

\* C18: within one cycle each slave is sent at most one seek, whether it
\* succeeded or failed: after a failed seek the loop has moved past that
\* slave, and the slave is sought again only by a later cycle.
C18_NoRetryInCycle ==
  /\ \A a, b \in 1 .. Len(seeks) : a # b => seeks[a].idx # seeks[b].idx
  /\ \A k \in Slaves :
       Cardinality({ a \in 1 .. Len(seeks) : seeks[a].idx = k }) <= 1
  /\ \A a \in 1 .. Len(seeks) :
       seeks[a].res \in {"ok", "failed"} => i > seeks[a].idx
C18_Witness ==
  /\ ~initial /\ pc = "correcting" /\ N >= 3 /\ i = N
  /\ Len(seeks) = N - 1
  /\ \E a \in 1 .. Len(seeks) : seeks[a].res = "failed"

\* C19: the DriftState is left alone while the poll runs: it changes only
\* when main replaces it with what the joined cycle returned; what the poll
\* measures depends on the poll's own result array only; and each result
\* handed over fills the one slot of its endpoint, once, leaving all other
\* slots as they were.
C19_DriftStateOutsidePoll ==
  [][ /\ delays' # delays =>
           (pc = "returned" /\ pc' = "sleep" /\ delays' = returned
            /\ \A k \in Endpoints : fut[k].st \in {"none", "collected"})
      /\ (\E k \in Endpoints : fut[k].st \in {"running", "done"}) => delays' = delays
      /\ (statuses' # statuses /\ pc' = "polling" /\ pc = "polling") =>
           \E k \in Endpoints :
             /\ fut[k].st = "done" /\ fut'[k].st = "collected"
             /\ statuses[k] = Unavailable /\ rtt_ms[k] = 0
             /\ \A j \in Endpoints \ {k} :
                  /\ statuses'[j] = statuses[j]
                  /\ rtt_ms'[j] = rtt_ms[j]
                  /\ fut'[j] = fut[j]
      /\ (pc = "polling" /\ pc' = "repolled" /\ new_delays' # None) =>
           new_delays' = MeasuredDelays(N, Val(extract_precise_time(statuses[0])), statuses)
    ]_vars
C19_Witness ==
  /\ pc = "polling" /\ N >= 3 /\ ~initial
  /\ \E k \in Slaves : Abs(delays[k]) >= drift_threshold
  /\ fut[1].st = "collected" /\ statuses[1] # Unavailable
  /\ fut[2].st = "running" /\ fut[0].st = "done"

\* C20: a seek is only ever sent to an endpoint of index 1 or more; the
\* correcting loop never stands at the master, whatever the DriftState,
\* the threshold and the answers of the players.
C20_MasterNeverSought ==
  /\ \A a \in 1 .. Len(seeks) : seeks[a].idx >= 1 /\ seeks[a].idx \in Slaves
  /\ pc \in {"correcting", "seeking"} => i >= 1
C20_Witness ==
  /\ pc = "repolled" /\ N >= 3 /\ ~first_run /\ new_delays = None
  /\ Len(seeks) = N - 1
  /\ delays[0] = 0
====
